---- MODULE Spec2Model ----
(***************************************************************************)
(* VenomBot: the animated blob of the active window (app.py), the ambient  *)
(* orb (ambient_window.py), the shared renderer (blob_renderer.py) and the *)
(* vision thread that feeds them (vision.py).                              *)
(*                                                                         *)
(* Units.  Python floats are kept as fixed-point integers:                 *)
(*   - lengths and coordinates in 1/100 pixel,                             *)
(*   - the noise time accumulators in 1/100,                               *)
(*   - a face coordinate in 1/10 of the frame (0.5 is 5).                  *)
(***************************************************************************)
EXTENDS Integers, Sequences, FiniteSets, TLC

\* ---------------------------------------------------------------- bounds
\* State requests reach the active window during its first ReqWindow ticks.
ReqWindow == 2
\* At most MaxReq state requests reach the active window.
MaxReq == 2
\* The ambient window's timer fires at most MaxAmbTicks times.
MaxAmbTicks == 1
\* The vision thread processes at most MaxFrames camera frames.
MaxFrames == 3

\* ------------------------------------------------------ program constants
\* app.py:68  if self.state_timer > 50
SuccessTicks == 50
\* app.py:76  if self.state_timer > 40
ErrorTicks == 40
\* app.py:36-38 / ambient_window.py:31-33, in 1/100
noise_speed == 5
noise_speed2 == 3
noise_speed3 == 8
\* app.py:107 and ambient_window.py:74
active_num_points == 40
ambient_num_points == 30
\* app.py:32 and ambient_window.py:27, pixels
active_base_radius == 100
ambient_base_radius == 50
\* blob_renderer.py:251, pixels
shadow_offset == 4

\* The active timer is followed long enough for a transient animation that
\* was requested inside the request window to run out.
MaxTicks == ReqWindow + SuccessTicks + 2

States == {"idle", "listening", "thinking", "success", "error"}
Transient == {"success", "error"}
\* Qt.Key_L, Key_T, Key_S, Key_E, Key_I and any other key
Keys == {"L", "T", "S", "E", "I", "X"}
\* Face coordinates the vision thread reports, in 1/10 of the frame
FaceCoords == {0, 10}
DefaultFace == <<5, 5>>

\* ------------------------------------------------------------ math.sin
\* math.sin(t * 0.3) * 10 in 1/100 pixel, for t = 0..60
JumpTable ==
  << 0, 296, 565, 783, 932, 997, 974, 863, 675, 427,
     141, -158, -443, -688, -872, -978, -996, -926, -773, -551,
     -279, 17, 312, 578, 794, 938, 999, 970, 855, 663,
     412, 124, -174, -458, -700, -880, -981, -995, -919, -762,
     -537, -263, 34, 327, 592, 804, 944, 999, 966, 846,
     650, 397, 108, -191, -472, -712, -888, -984, -993, -913,
     -751 >>

\* math.sin(t * 0.5) * 5 in 1/100 pixel, for t = 0..60
WobbleTable ==
  << 0, 240, 421, 499, 455, 299, 71, -175, -378, -489,
     -479, -353, -140, 108, 328, 469, 495, 399, 206, -38,
     -272, -440, -500, -438, -268, -33, 210, 402, 495, 467,
     325, 103, -144, -356, -481, -488, -375, -171, 75, 303,
     456, 498, 418, 236, -4, -244, -423, -499, -453, -296,
     -66, 180, 381, 490, 478, 350, 135, -112, -332, -471,
     -494 >>

\* math.cos / math.sin of 2*pi*i/40 and 2*pi*i/30, times 1000, i = 0..n-1
Cos40 ==
  << 1000, 988, 951, 891, 809, 707, 588, 454, 309, 156,
     0, -156, -309, -454, -588, -707, -809, -891, -951, -988,
     -1000, -988, -951, -891, -809, -707, -588, -454, -309, -156,
     0, 156, 309, 454, 588, 707, 809, 891, 951, 988 >>

Sin40 ==
  << 0, 156, 309, 454, 588, 707, 809, 891, 951, 988,
     1000, 988, 951, 891, 809, 707, 588, 454, 309, 156,
     0, -156, -309, -454, -588, -707, -809, -891, -951, -988,
     -1000, -988, -951, -891, -809, -707, -588, -454, -309, -156 >>

Cos30 ==
  << 1000, 978, 914, 809, 669, 500, 309, 105, -105, -309,
     -500, -669, -809, -914, -978, -1000, -978, -914, -809, -669,
     -500, -309, -105, 105, 309, 500, 669, 809, 914, 978 >>

Sin30 ==
  << 0, 208, 407, 588, 743, 866, 951, 995, 995, 951,
     866, 743, 588, 407, 208, 0, -208, -407, -588, -743,
     -866, -951, -995, -995, -951, -866, -743, -588, -407, -208 >>

\* ------------------------------------------------------------------ state
VARIABLES
  state,            \* ActiveWindow.state
  state_timer,      \* ActiveWindow.state_timer
  jump_height,      \* ActiveWindow.jump_height, 1/100 pixel
  wobble_offset,    \* ActiveWindow.wobble_offset, 1/100 pixel
  time, time2, time3,             \* ActiveWindow noise time accumulators
  face_pos,         \* ActiveWindow.face_pos
  amb_state,        \* AmbientWindow.state
  amb_time, amb_time2, amb_time3, \* AmbientWindow noise time accumulators
  amb_face_pos,     \* AmbientWindow.face_pos
  active_shown,     \* the active window is visible
  ambient_shown,    \* the ambient orb is visible
  painted,          \* the frame painted by the step just taken (or none)
  nreq,             \* history: state requests the active window has received
  lastReq,          \* history: the latest state request to the active window
  ticksSince,       \* history: active ticks since that request
  nticks,           \* history: timeouts of the active window's timer
  amb_nticks,       \* history: timeouts of the ambient window's timer
  amb_lastReq,      \* history: the latest state request to the ambient window
  user_was_present, \* VisionThread._user_was_present
  sigq,             \* signals queued from the vision thread to the GUI thread
  frames,           \* history: camera frames the vision thread has processed
  lastFace,         \* history: the latest face_position_signal delivered
  presence_log,     \* history: the user_present / user_absent emitted so far
  running,          \* VisionThread.running
  vpc,              \* where the vision thread is in VisionThread.run
  stop_pc,          \* where the GUI thread is in VisionThread.stop
  connected,        \* setup_vision_connections has made the connections
  arg_points,       \* the contour of a direct render_blob call
  arg_color,        \* the colour of a direct create_color_variations call
  variations        \* what that call returned (or none)

vars == << state, state_timer, jump_height, wobble_offset, time, time2, time3,
           face_pos, amb_state, amb_time, amb_time2, amb_time3, amb_face_pos,
           active_shown, ambient_shown, painted, nreq, lastReq, ticksSince,
           amb_lastReq, user_was_present, sigq, frames, lastFace, nticks,
           amb_nticks, presence_log, running, vpc, stop_pc, connected,
           arg_points, arg_color, variations >>

activeAnim == << state, state_timer, jump_height, wobble_offset >>
activeTimes == << time, time2, time3 >>
ambTimes == << amb_time, amb_time2, amb_time3 >>
shown == << active_shown, ambient_shown >>
history == << nreq, lastReq, ticksSince, amb_lastReq, lastFace, nticks,
             amb_nticks >>
vision == << user_was_present, sigq, frames >>
thread == << running, vpc, stop_pc, connected >>
direct == << arg_points, arg_color, variations >>

\* no create_color_variations call has been made
NoVariations ==
  [ base |-> << 0, 0, 0 >>, highlight |-> << 0, 0, 0 >>,
    mid_light |-> << 0, 0, 0 >>, mid_dark |-> << 0, 0, 0 >>,
    shadow |-> << 0, 0, 0 >>, made |-> FALSE ]

NoFrame ==
  [ window |-> "none", state |-> "idle", face_pos |-> DefaultFace,
    center |-> <<0, 0>>, npoints |-> 0, npath |-> 0, nshadow |-> 0,
    closed |-> FALSE, aborted |-> FALSE, max_distance |-> 0,
    base_color |-> <<0, 0, 0>>, layers |-> << >>, shadow_delta |-> {} ]

Init ==
  /\ state = "idle"
  /\ state_timer = 0
  /\ jump_height = 0
  /\ wobble_offset = 0
  /\ time = 0 /\ time2 = 0 /\ time3 = 0
  /\ face_pos = DefaultFace
  /\ amb_state = "idle"
  /\ amb_time = 0 /\ amb_time2 = 0 /\ amb_time3 = 0
  /\ amb_face_pos = DefaultFace
  /\ active_shown = FALSE
  /\ ambient_shown = TRUE
  /\ painted = NoFrame
  /\ nreq = 0
  /\ lastReq = "none"
  /\ ticksSince = 0
  /\ amb_lastReq = "none"
  /\ user_was_present = FALSE
  /\ sigq = << >>
  /\ frames = 0
  /\ lastFace = DefaultFace
  /\ nticks = 0
  /\ amb_nticks = 0
  /\ presence_log = << >>
  /\ running = TRUE
  /\ vpc = "check"
  /\ stop_pc = "idle"
  /\ connected = TRUE
  /\ arg_points = << >>
  /\ arg_color = << 10, 10, 15 >>
  /\ variations = NoVariations

\* ------------------------------------------- ActiveWindow.animate_blob
\* math.sin(self.state_timer * 0.3) * 10
JumpOf(t) == JumpTable[t + 1]

\* math.sin(self.state_timer * 0.5) * 5
WobbleOf(t) == WobbleTable[t + 1]

\* variant: the comparison written >=
SuccessExpiredAtLimit(t) == t >= SuccessTicks

\* variant: the Success branch never resets the state
SuccessNeverExpires(t) == FALSE

\* if self.state_timer > 50
SuccessExpired(t) == t > SuccessTicks

\* variant: the comparison written >=
ErrorExpiredAtLimit(t) == t >= ErrorTicks

\* if self.state_timer > 40
ErrorExpired(t) == t > ErrorTicks

\* variant: the third accumulator advanced by the second one's speed
AdvanceTimesSameSpeed(t1, t2, t3) ==
  << t1 + noise_speed, t2 + noise_speed2, t3 + noise_speed2 >>

\* The three accumulators after one tick of a window's timer.
AdvanceTimes(t1, t2, t3) ==
  << t1 + noise_speed, t2 + noise_speed2, t3 + noise_speed3 >>

\* ActiveWindow.animate_blob, the slot of the 20 ms QTimer
animate_blob ==
  /\ LET nt == AdvanceTimes(time, time2, time3) IN
       /\ time' = nt[1] /\ time2' = nt[2] /\ time3' = nt[3]
  /\ IF state = "success"
       THEN /\ jump_height' = JumpOf(state_timer)
            /\ IF SuccessExpired(state_timer + 1)
                 THEN state' = "idle" /\ state_timer' = 0
                 ELSE state' = state /\ state_timer' = state_timer + 1
            /\ UNCHANGED wobble_offset
     ELSE IF state = "error"
       THEN /\ wobble_offset' = WobbleOf(state_timer)
            /\ IF ErrorExpired(state_timer + 1)
                 THEN state' = "idle" /\ state_timer' = 0
                 ELSE state' = state /\ state_timer' = state_timer + 1
            /\ UNCHANGED jump_height
     ELSE UNCHANGED activeAnim
  /\ ticksSince' = ticksSince + 1
  /\ nticks' = nticks + 1
  /\ UNCHANGED << face_pos, amb_state, ambTimes, amb_face_pos, shown,
                  nreq, lastReq, amb_lastReq, lastFace, amb_nticks >>

\* ------------------------------------------- ActiveWindow.keyPressEvent
KeyState(k) ==
  CASE k = "L" -> "listening"
    [] k = "T" -> "thinking"
    [] k = "S" -> "success"
    [] k = "E" -> "error"
    [] k = "I" -> "idle"
    [] OTHER -> "none"

\* variant: a key pressed during a transient animation is ignored
KeyPressResultWhenFree(k, st, timer) ==
  IF KeyState(k) = "none" \/ st \in Transient THEN << st, timer >>
  ELSE << KeyState(k), 0 >>

\* variant: a key sets the state and leaves the timer running
KeyPressResultKeepsTimer(k, st, timer) ==
  IF KeyState(k) = "none" THEN << st, timer >> ELSE << KeyState(k), timer >>

\* <<state, state_timer>> after the key k is handled
KeyPressResult(k, st, timer) ==
  IF KeyState(k) = "none" THEN << st, timer >> ELSE << KeyState(k), 0 >>

keyPressEvent(k) ==
  /\ LET r == KeyPressResult(k, state, state_timer) IN
       /\ state' = r[1]
       /\ state_timer' = r[2]
  /\ IF KeyState(k) = "none"
       THEN UNCHANGED << nreq, lastReq, ticksSince >>
       ELSE /\ nreq' = nreq + 1
            /\ lastReq' = KeyState(k)
            /\ ticksSince' = 0
  /\ UNCHANGED << jump_height, wobble_offset, activeTimes, face_pos,
                  amb_state, ambTimes, amb_face_pos, shown, amb_lastReq,
                  lastFace, nticks, amb_nticks >>

\* -------------------------------- AuraApp.on_user_present / on_user_absent
\* <<ambient state, active state, active state_timer>> after the handler
OnUserPresentResult(ast, st, timer) == << "listening", "listening", timer >>

OnUserAbsentResult(ast, st, timer) == << "idle", "idle", timer >>

on_user_present ==
  /\ LET r == OnUserPresentResult(amb_state, state, state_timer) IN
       /\ amb_state' = r[1]
       /\ state' = r[2]
       /\ state_timer' = r[3]
  /\ nreq' = nreq + 1
  /\ lastReq' = "present"
  /\ ticksSince' = 0
  /\ amb_lastReq' = "present"
  /\ UNCHANGED << jump_height, wobble_offset, activeTimes, face_pos,
                  ambTimes, amb_face_pos, shown, lastFace, nticks,
                  amb_nticks >>

on_user_absent ==
  /\ LET r == OnUserAbsentResult(amb_state, state, state_timer) IN
       /\ amb_state' = r[1]
       /\ state' = r[2]
       /\ state_timer' = r[3]
  /\ nreq' = nreq + 1
  /\ lastReq' = "absent"
  /\ ticksSince' = 0
  /\ amb_lastReq' = "absent"
  /\ UNCHANGED << jump_height, wobble_offset, activeTimes, face_pos,
                  ambTimes, amb_face_pos, shown, lastFace, nticks,
                  amb_nticks >>

\* ------------------------------------------------------- AmbientWindow
\* AmbientWindow.animate_blob, the slot of the orb's 20 ms QTimer
amb_animate_blob ==
  /\ LET nt == AdvanceTimes(amb_time, amb_time2, amb_time3) IN
       /\ amb_time' = nt[1] /\ amb_time2' = nt[2] /\ amb_time3' = nt[3]
  /\ amb_nticks' = amb_nticks + 1
  /\ UNCHANGED << activeAnim, activeTimes, face_pos, amb_state, amb_face_pos,
                  shown, nreq, lastReq, ticksSince, amb_lastReq, lastFace,
                  nticks >>

AmbKeyState(k) ==
  CASE k = "L" -> "listening"
    [] k = "T" -> "thinking"
    [] k = "I" -> "idle"
    [] OTHER -> "none"

AmbKeyPressResult(k, ast) ==
  IF AmbKeyState(k) = "none" THEN ast ELSE AmbKeyState(k)

amb_keyPressEvent(k) ==
  /\ amb_state' = AmbKeyPressResult(k, amb_state)
  /\ amb_lastReq' = IF AmbKeyState(k) = "none" THEN amb_lastReq
                    ELSE AmbKeyState(k)
  /\ UNCHANGED << activeAnim, activeTimes, face_pos, ambTimes, amb_face_pos,
                  shown, nreq, lastReq, ticksSince, lastFace, nticks,
                  amb_nticks >>

\* AmbientWindow.on_user_present: the state after the handler
AmbOnUserPresentResult(ast) == IF ast # "listening" THEN "listening" ELSE ast

\* AmbientWindow.on_user_absent: the state after the handler
AmbOnUserAbsentResult(ast) == IF ast # "idle" THEN "idle" ELSE ast

amb_on_user_present ==
  /\ amb_state' = AmbOnUserPresentResult(amb_state)
  /\ amb_lastReq' = "present"
  /\ UNCHANGED << activeAnim, activeTimes, face_pos, ambTimes, amb_face_pos,
                  shown, nreq, lastReq, ticksSince, lastFace, nticks,
                  amb_nticks >>

amb_on_user_absent ==
  /\ amb_state' = AmbOnUserAbsentResult(amb_state)
  /\ amb_lastReq' = "absent"
  /\ UNCHANGED << activeAnim, activeTimes, face_pos, ambTimes, amb_face_pos,
                  shown, nreq, lastReq, ticksSince, lastFace, nticks,
                  amb_nticks >>

\* ------------------------------------------------- set_face_position
\* variant: the two coordinates stored one update apart
set_face_position_torn(old, norm_x, norm_y) == << norm_x, old[2] >>

\* self.face_pos = (norm_x, norm_y)
set_face_position(old, norm_x, norm_y) == << norm_x, norm_y >>

\* AuraApp._on_face_position_updated
on_face_position_updated(norm_x, norm_y) ==
  /\ amb_face_pos' = set_face_position(amb_face_pos, norm_x, norm_y)
  /\ face_pos' = set_face_position(face_pos, norm_x, norm_y)
  /\ lastFace' = << norm_x, norm_y >>
  /\ UNCHANGED << activeAnim, activeTimes, amb_state, ambTimes, shown,
                  nreq, lastReq, ticksSince, amb_lastReq, nticks,
                  amb_nticks >>

\* ------------------------------------------------------ window switching
\* variant: the orb left on screen when the active window is shown
show_active_window_keeps_orb ==
  /\ ambient_shown' = ambient_shown
  /\ active_shown' = TRUE
  /\ UNCHANGED << activeAnim, activeTimes, face_pos, amb_state, ambTimes,
                  amb_face_pos, history >>

\* AuraApp.show_active_window
show_active_window ==
  /\ ambient_shown' = FALSE
  /\ active_shown' = TRUE
  /\ UNCHANGED << activeAnim, activeTimes, face_pos, amb_state, ambTimes,
                  amb_face_pos, history >>

\* AuraApp.show_ambient_window
show_ambient_window ==
  /\ active_shown' = FALSE
  /\ ambient_shown' = TRUE
  /\ UNCHANGED << activeAnim, activeTimes, face_pos, amb_state, ambTimes,
                  amb_face_pos, history >>

\* ------------------------------------------------ create_blob_shape
\* Stand-in for the radius deformation of one contour point, in percent of
\* its largest amplitude: the weighted OpenSimplex layers (noise2 is a
\* library function of the angle and the three accumulators) plus the
\* sin(time * 2 + i * 0.5) term.  Deterministic in (i, time, time2, time3)
\* and within -60..60, as in the code (0.6 + 0.3 + 0.1 of 50 px, plus 10 px).
Deformation(i, t1, t2, t3) == ((i * 37 + t1 * 11 + t2 * 7 + t3 * 3) % 121) - 60

\* variant: both offsets added whatever the state
ActiveCenterAlways(st, jump, wobble) == << 20000 + wobble, 15000 + jump >>

\* variant: the wobble branch written as a plain else
ActiveCenterElse(st, jump, wobble) ==
  IF st = "success" THEN << 20000, 15000 + jump >>
  ELSE << 20000 + wobble, 15000 >>

\* center_x, center_y of ActiveWindow.create_blob_shape, 1/100 pixel
ActiveCenter(st, jump, wobble) ==
  IF st = "success" THEN << 20000, 15000 + jump >>
  ELSE IF st = "error" THEN << 20000 + wobble, 15000 >>
  ELSE << 20000, 15000 >>

\* range(num_points) of the loop, as the indices 1..num_points
PointRange(num_points) == 1 .. num_points

\* ActiveWindow.create_blob_shape: the points list
create_blob_shape(st, jump, wobble, t1, t2, t3) ==
  LET c == ActiveCenter(st, jump, wobble) IN
  [ i \in PointRange(active_num_points) |->
      LET radius == active_base_radius * 100
                      + Deformation(i - 1, t1, t2, t3) * 100
      IN << c[1] + (Cos40[i] * radius) \div 1000,
            c[2] + (Sin40[i] * radius) \div 1000 >> ]

\* AmbientWindow.create_blob_shape: the points list
amb_create_blob_shape(t1, t2, t3) ==
  [ i \in PointRange(ambient_num_points) |->
      LET radius == ambient_base_radius * 100
                      + Deformation(i - 1, t1, t2, t3) * 50
      IN << 7500 + (Cos30[i] * radius) \div 1000,
            7500 + (Sin30[i] * radius) \div 1000 >> ]

\* ------------------------------------------------ BlobRenderer.render_blob
RECURSIVE SumCoord(_, _, _)
\* sum(point.x() for point in points) for c = 1, point.y() for c = 2,
\* over the first n points
SumCoord(pts, c, n) ==
  IF n = 0 THEN 0 ELSE pts[n][c] + SumCoord(pts, c, n - 1)

RECURSIVE MaxSq(_, _, _, _)
\* the largest squared distance of the first n points from (cx, cy)
MaxSq(pts, cx, cy, n) ==
  IF n = 0 THEN 0
  ELSE LET d == (pts[n][1] - cx) * (pts[n][1] - cx)
                  + (pts[n][2] - cy) * (pts[n][2] - cy)
           m == MaxSq(pts, cx, cy, n - 1)
       IN IF d > m THEN d ELSE m

RECURSIVE SqrtBetween(_, _, _)
\* the largest r in lo..hi with r * r <= n
SqrtBetween(n, lo, hi) ==
  IF lo >= hi THEN lo
  ELSE LET mid == (lo + hi + 1) \div 2 IN
       IF mid * mid <= n THEN SqrtBetween(n, mid, hi)
       ELSE SqrtBetween(n, lo, mid - 1)

\* math.sqrt, rounded down to 1/100 pixel
Sqrt(n) == SqrtBetween(n, 0, 40000)

\* tilt_x * 40.0 and tilt_y * 40.0, in 1/100 pixel
TiltX40(fp) == (fp[1] - 5) * 200

TiltY40(fp) == (fp[2] - 5) * 160

\* biased_points: every point leaned toward the face direction
BiasedPoints(points, cx, cy, maxd, fp) ==
  [ i \in 1 .. Len(points) |->
      << points[i][1] + (TiltX40(fp) * (points[i][2] - cy)) \div maxd,
         points[i][2] + (TiltY40(fp) * (points[i][1] - cx)) \div maxd >> ]

\* shadow_points: QPointF(point.x() + shadow_offset, point.y() + shadow_offset)
ShadowPoints(points) ==
  [ i \in 1 .. Len(points) |->
      << points[i][1] + shadow_offset * 100,
         points[i][2] + shadow_offset * 100 >> ]

\* variant: closeSubpath() left out
OpenPath(pts) == pts

\* moveTo(pts[0]); lineTo(pts[1:]); closeSubpath(): the vertices the path
\* visits, the closing segment leading back to the first one
ClosedPath(pts) == pts \o << pts[1] >>

\* ---------------------------------------------- get_state_color and colours
\* a state value no branch of get_state_color or animate_blob names
AnyState == States \cup {"unknown"}

\* variant: the fallback branch returning black
get_state_color_black(st) ==
  CASE st = "idle" -> << 10, 10, 15 >>
    [] st = "listening" -> << 0, 200, 255 >>
    [] st = "thinking" -> << 255, 150, 0 >>
    [] st = "success" -> << 0, 255, 100 >>
    [] st = "error" -> << 255, 50, 50 >>
    [] OTHER -> << 0, 0, 0 >>

\* BlobRenderer.get_state_color: (red, green, blue)
get_state_color(st) ==
  CASE st = "idle" -> << 10, 10, 15 >>
    [] st = "listening" -> << 0, 200, 255 >>
    [] st = "thinking" -> << 255, 150, 0 >>
    [] st = "success" -> << 0, 255, 100 >>
    [] st = "error" -> << 255, 50, 50 >>
    [] OTHER -> << 10, 10, 15 >>

\* Python's min and max of two integers
Min(a, b) == IF a < b THEN a ELSE b

Max(a, b) == IF a > b THEN a ELSE b

\* setRed(min(255, red() + d)) and the same for green and blue
Lighter(color, d) ==
  << Min(255, color[1] + d), Min(255, color[2] + d), Min(255, color[3] + d) >>

\* setRed(max(0, red() - d)) and the same for green and blue
Darker(color, d) ==
  << Max(0, color[1] - d), Max(0, color[2] - d), Max(0, color[3] - d) >>

\* variant: the highlight added without the clamp
create_color_variations_unclamped(base_color) ==
  [ base |-> base_color,
    highlight |-> << base_color[1] + 80, base_color[2] + 80,
                     base_color[3] + 80 >>,
    mid_light |-> Lighter(base_color, 40),
    mid_dark |-> Darker(base_color, 40),
    shadow |-> Darker(base_color, 60),
    made |-> TRUE ]

\* BlobRenderer.create_color_variations, with the colour it was given
create_color_variations(base_color) ==
  [ base |-> base_color,
    highlight |-> Lighter(base_color, 80),
    mid_light |-> Lighter(base_color, 40),
    mid_dark |-> Darker(base_color, 40),
    shadow |-> Darker(base_color, 60),
    made |-> TRUE ]

\* ------------------------------------------------ the layers of render_blob
\* _draw_layer(painter, gradient, path): what the painter has drawn so far,
\* with the gradient and the path of the new layer at the end
draw_layer(painter, gradient, path) == Append(painter, << gradient, path >>)

\* _draw_symbiote_eyes(painter): the left eye, then the right one
draw_symbiote_eyes(painter) ==
  painter \o << << "white", "left_eye" >>, << "white", "right_eye" >> >>

\* variant: the contact shadow drawn before the ambient occlusion
DrawLayersShadowFirst ==
  LET l1 == draw_layer(<< >>, "shadow_gradient", "shadow_path")
      l2 == draw_layer(l1, "ao_gradient", "path")
      l3 == draw_layer(l2, "main_gradient", "path")
      l4 == draw_layer(l3, "rim_gradient", "path")
      l5 == draw_layer(l4, "specular_gradient", "path")
      l6 == draw_layer(l5, "secondary_gradient", "path")
  IN draw_symbiote_eyes(l6)

\* blob_renderer.py:262-270: the draw calls of one render_blob call, in the
\* order they are made, each with the names of its gradient and its path
DrawLayers ==
  LET l1 == draw_layer(<< >>, "ao_gradient", "path")
      l2 == draw_layer(l1, "shadow_gradient", "shadow_path")
      l3 == draw_layer(l2, "main_gradient", "path")
      l4 == draw_layer(l3, "rim_gradient", "path")
      l5 == draw_layer(l4, "specular_gradient", "path")
      l6 == draw_layer(l5, "secondary_gradient", "path")
  IN draw_symbiote_eyes(l6)

\* the points shadow_points is built from: "for point in points"
ShadowSource(points, biased_points) == points

\* the displacements shadow_path has from path, vertex by vertex
PathDelta(path, shadow_path) ==
  { << shadow_path[i][1] - path[i][1], shadow_path[i][2] - path[i][2] >> :
      i \in 1 .. Len(path) }

\* render_blob left by the ZeroDivisionError of dy / max_distance: no layer
\* has been drawn
AbortedFrame(points, st, fp) ==
  [ state |-> st, face_pos |-> fp, npoints |-> Len(points),
    npath |-> 0, nshadow |-> 0, closed |-> FALSE, aborted |-> TRUE,
    max_distance |-> 0, base_color |-> << 0, 0, 0 >>, layers |-> << >>,
    shadow_delta |-> {} ]

\* The frame render_blob produces for a contour
render_blob(points, st, fp) ==
  LET n == Len(points)
      cx == SumCoord(points, 1, n) \div n
      cy == SumCoord(points, 2, n) \div n
      maxd == Sqrt(MaxSq(points, cx, cy, n))
      biased == BiasedPoints(points, cx, cy, maxd, fp)
      path == ClosedPath(biased)
      shadow_path == ClosedPath(ShadowPoints(ShadowSource(points, biased)))
  IN IF maxd = 0 THEN AbortedFrame(points, st, fp)
     ELSE
     [ state |-> st, face_pos |-> fp, npoints |-> n,
       npath |-> Len(biased), nshadow |-> Len(shadow_path) - 1,
       closed |-> /\ path[Len(path)] = path[1]
                  /\ shadow_path[Len(shadow_path)] = shadow_path[1]
                  /\ Len(path) = n + 1,
       aborted |-> FALSE,
       max_distance |-> maxd,
       base_color |-> get_state_color(st),
       layers |-> DrawLayers,
       shadow_delta |-> PathDelta(path, shadow_path) ]

Frame(w, c, r) ==
  [ window |-> w, state |-> r.state, face_pos |-> r.face_pos, center |-> c,
    npoints |-> r.npoints, npath |-> r.npath, nshadow |-> r.nshadow,
    closed |-> r.closed, aborted |-> r.aborted,
    max_distance |-> r.max_distance, base_color |-> r.base_color,
    layers |-> r.layers, shadow_delta |-> r.shadow_delta ]

\* ActiveWindow.paintEvent: the frame it paints
paintEvent ==
  LET points == create_blob_shape(state, jump_height, wobble_offset,
                                  time, time2, time3)
  IN Frame("active", ActiveCenter(state, jump_height, wobble_offset),
           render_blob(points, state, face_pos))

\* AmbientWindow.paintEvent: the frame it paints
amb_paintEvent ==
  LET points == amb_create_blob_shape(amb_time, amb_time2, amb_time3)
  IN Frame("ambient", << 7500, 7500 >>,
           render_blob(points, amb_state, amb_face_pos))

program == << activeAnim, activeTimes, face_pos, amb_state, ambTimes,
              amb_face_pos, shown >>

\* ------------------------------------------------- the GUI event loop
\* Events of the GUI thread.  A window receives key, mouse, close and paint
\* events only while it is shown; its QTimer runs whether it is shown or not.

\* A state request may still reach the active window
CanRequest == nreq < MaxReq /\ time <= ReqWindow * noise_speed

\* the active window's timer fires, followed to the end of a transient
TimerTimeout ==
  /\ time < MaxTicks * noise_speed
  /\ animate_blob
  /\ painted' = NoFrame
  /\ UNCHANGED << vision, presence_log, thread, direct >>

\* the active window's timer fires, followed through the request window
EarlyTimerTimeout ==
  /\ time < ReqWindow * noise_speed
  /\ animate_blob
  /\ painted' = NoFrame
  /\ UNCHANGED << vision, presence_log, thread, direct >>

AmbTimerTimeout ==
  /\ amb_time < MaxAmbTicks * noise_speed
  /\ amb_animate_blob
  /\ painted' = NoFrame
  /\ UNCHANGED << vision, presence_log, thread, direct >>

KeyPress(k) ==
  /\ active_shown
  /\ KeyState(k) # "none" => CanRequest
  /\ keyPressEvent(k)
  /\ painted' = NoFrame
  /\ UNCHANGED << vision, presence_log, thread, direct >>

AmbKeyPress(k) ==
  /\ ambient_shown
  /\ amb_keyPressEvent(k)
  /\ painted' = NoFrame
  /\ UNCHANGED << vision, presence_log, thread, direct >>

\* presenceGained / presenceLost reach the application
UserPresent ==
  /\ CanRequest
  /\ on_user_present
  /\ painted' = NoFrame
  /\ UNCHANGED << vision, presence_log, thread, direct >>

UserAbsent ==
  /\ CanRequest
  /\ on_user_absent
  /\ painted' = NoFrame
  /\ UNCHANGED << vision, presence_log, thread, direct >>

\* ... and the ambient window's own slots
AmbUserPresent ==
  /\ amb_on_user_present
  /\ painted' = NoFrame
  /\ UNCHANGED << vision, presence_log, thread, direct >>

AmbUserAbsent ==
  /\ amb_on_user_absent
  /\ painted' = NoFrame
  /\ UNCHANGED << vision, presence_log, thread, direct >>

FacePositionUpdated(x, y) ==
  /\ on_face_position_updated(x, y)
  /\ painted' = NoFrame
  /\ UNCHANGED << vision, presence_log, thread, direct >>

\* AmbientWindow.mousePressEvent
MousePress ==
  /\ ambient_shown
  /\ show_active_window
  /\ painted' = NoFrame
  /\ UNCHANGED << vision, presence_log, thread, direct >>

\* ActiveWindow.closeEvent: close_active_window() -> show_ambient_window(),
\* then event.accept() closes the active window
CloseActive ==
  /\ active_shown
  /\ show_ambient_window
  /\ painted' = NoFrame
  /\ UNCHANGED << vision, presence_log, thread, direct >>

\* A paint event follows an update() or a show: the frame on screen is not
\* painted again before another event has been handled.
Paint ==
  /\ active_shown
  /\ painted = NoFrame
  /\ painted' = paintEvent
  /\ UNCHANGED << program, history, vision, presence_log, thread, direct >>

AmbPaint ==
  /\ ambient_shown
  /\ painted = NoFrame
  /\ painted' = amb_paintEvent
  /\ UNCHANGED << program, history, vision, presence_log, thread, direct >>

\* The event loop of both windows through the request window.
Next ==
  \/ EarlyTimerTimeout
  \/ \E k \in Keys : KeyPress(k)
  \/ UserPresent
  \/ UserAbsent
  \/ \E k \in Keys : AmbKeyPress(k)
  \/ AmbUserPresent
  \/ AmbUserAbsent
  \/ \E x \in FaceCoords, y \in FaceCoords : FacePositionUpdated(x, y)
  \/ MousePress
  \/ CloseActive
  \/ Paint
  \/ AmbPaint

Spec == Init /\ [][Next]_vars

\* The animation clock followed until a transient animation has run out.
ClockNext ==
  \/ TimerTimeout
  \/ AmbTimerTimeout
  \/ \E k \in Keys : KeyPress(k)
  \/ UserPresent
  \/ UserAbsent
  \/ MousePress
  \/ CloseActive
  \/ Paint
  \/ AmbPaint

ClockSpec == Init /\ [][ClockNext]_vars

\* The animation clock under requests and face updates, the QTimer firing
\* again and again (a running QTimer times out every 20 ms).
LiveNext ==
  \/ TimerTimeout
  \/ \E k \in Keys : KeyPress(k)
  \/ UserPresent
  \/ UserAbsent
  \/ MousePress
  \/ \E x \in FaceCoords, y \in FaceCoords : FacePositionUpdated(x, y)

LiveSpec == Init /\ [][LiveNext]_vars /\ WF_vars(TimerTimeout)

\* ------------------------------------------------------ VisionThread.run
\* Signals are emitted in the vision thread and their slots live in the GUI
\* thread: every connection is queued, one event per connected slot, in the
\* order setup_vision_connections made the connections.
Signal(name, x, y) == [ sig |-> name, x |-> x, y |-> y ]

\* variant: user_present emitted for every frame that shows a face
PresenceEmittedEveryFrame(user_is_present, was_present) ==
  IF user_is_present THEN << "user_present" >>
  ELSE IF was_present THEN << "user_absent" >>
  ELSE << >>

\* vision.py:120-125: the presence signal one pass of the loop emits
PresenceEmitted(user_is_present, was_present) ==
  IF user_is_present /\ ~was_present THEN << "user_present" >>
  ELSE IF ~user_is_present /\ was_present THEN << "user_absent" >>
  ELSE << >>

\* the slot events one emitted presence signal queues, in connection order:
\* the application's handler (app.py:220-221), the orb's own (228-229)
Queued(emitted) ==
  IF emitted = << >> THEN << >>
  ELSE << Signal(emitted[1], 0, 0),
          Signal(IF emitted[1] = "user_present" THEN "user_present_ambient"
                 ELSE "user_absent_ambient", 0, 0) >>

\* what one pass of the processing loop queues for the GUI thread
Emitted(detected, was_present, norm_x, norm_y) ==
  (IF detected THEN << Signal("face_position_signal", norm_x, norm_y) >>
   ELSE << >>)
  \o Queued(PresenceEmitted(detected, was_present))

\* one pass of the loop over a camera frame that was read successfully; a
\* signal emitted while nothing is connected to it reaches no slot
vision_frame(detected, norm_x, norm_y) ==
  /\ sigq' = IF connected
               THEN sigq \o Emitted(detected, user_was_present, norm_x, norm_y)
             ELSE sigq
  /\ presence_log' = presence_log \o PresenceEmitted(detected, user_was_present)
  /\ user_was_present' = detected
  /\ frames' = frames + 1
  /\ UNCHANGED << program, history >>

\* AuraApp.on_vision_error: the slot has no statement
on_vision_error == UNCHANGED << program, history >>

\* the GUI thread handles the oldest queued signal
deliver ==
  /\ sigq # << >>
  /\ LET s == Head(sigq) IN
       CASE s.sig = "face_position_signal" ->
              on_face_position_updated(s.x, s.y)
         [] s.sig = "error_occurred" -> on_vision_error
         [] s.sig = "user_present" -> on_user_present
         [] s.sig = "user_present_ambient" -> amb_on_user_present
         [] s.sig = "user_absent" -> on_user_absent
         [] s.sig = "user_absent_ambient" -> amb_on_user_absent
  /\ sigq' = Tail(sigq)
  /\ UNCHANGED << user_was_present, frames, presence_log >>

VisionFrame(detected, x, y) ==
  /\ frames < MaxFrames
  /\ vision_frame(detected, x, y)
  /\ painted' = NoFrame
  /\ UNCHANGED << thread, direct >>

Deliver ==
  /\ deliver
  /\ painted' = NoFrame
  /\ UNCHANGED << thread, direct >>

\* The vision thread feeding the event loop of the two windows.
VisionNext ==
  \/ \E x \in FaceCoords, y \in FaceCoords : VisionFrame(TRUE, x, y)
  \/ VisionFrame(FALSE, 0, 0)
  \/ Deliver
  \/ EarlyTimerTimeout
  \/ MousePress
  \/ Paint
  \/ AmbPaint

VisionSpec == Init /\ [][VisionNext]_vars

\* --------------------------------- requests at any moment of an animation
\* State requests that reach the active window at any tick, also late in a
\* transient animation, as long as fewer than MaxReq have been made.

\* the active window's timer fires, followed for the ticks the longest
\* animation takes to run out
AnimationTimeout ==
  /\ time < (SuccessTicks + 1) * noise_speed
  /\ animate_blob
  /\ painted' = NoFrame
  /\ UNCHANGED << vision, presence_log, thread, direct >>

AnyTimeKeyPress(k) ==
  /\ active_shown
  /\ KeyState(k) # "none" => nreq < MaxReq
  /\ keyPressEvent(k)
  /\ painted' = NoFrame
  /\ UNCHANGED << vision, presence_log, thread, direct >>

AnyTimeUserPresent ==
  /\ nreq < MaxReq
  /\ on_user_present
  /\ painted' = NoFrame
  /\ UNCHANGED << vision, presence_log, thread, direct >>

AnyTimeUserAbsent ==
  /\ nreq < MaxReq
  /\ on_user_absent
  /\ painted' = NoFrame
  /\ UNCHANGED << vision, presence_log, thread, direct >>

\* The animation clock with requests arriving at any tick.
TimerNext ==
  \/ AnimationTimeout
  \/ \E k \in Keys : AnyTimeKeyPress(k)
  \/ AnyTimeUserPresent
  \/ AnyTimeUserAbsent
  \/ MousePress

TimerSpec == Init /\ [][TimerNext]_vars

\* ------------------------------------- the life of the vision thread
\* The vision thread from VisionManager.start_vision() (app.py:208) to
\* VisionThread.stop(), next to the GUI thread, which still has to make the
\* connections when the thread has been started.
\*   vpc: "started"  QThread.start() has returned, run() has not begun
\*        "opening"  self.running = True done, the camera being opened
\*        "check"    at "while self.running"
\*        "read"     in the loop body, at cap.read()
\*        "release"  past the loop, at cap.release()
\*        "finished" run() has returned after cap.release()
\*        "failed"   run() has returned because the camera did not open
\*   stop_pc: "idle", "waiting" (in self.wait()), "returned"

\* the state when start_vision() has returned, at app.py:208
ThreadInit ==
  /\ state = "idle"
  /\ state_timer = 0
  /\ jump_height = 0
  /\ wobble_offset = 0
  /\ time = 0 /\ time2 = 0 /\ time3 = 0
  /\ face_pos = DefaultFace
  /\ amb_state = "idle"
  /\ amb_time = 0 /\ amb_time2 = 0 /\ amb_time3 = 0
  /\ amb_face_pos = DefaultFace
  /\ active_shown = FALSE
  /\ ambient_shown = FALSE
  /\ painted = NoFrame
  /\ nreq = 0
  /\ lastReq = "none"
  /\ ticksSince = 0
  /\ amb_lastReq = "none"
  /\ user_was_present = FALSE
  /\ sigq = << >>
  /\ frames = 0
  /\ lastFace = DefaultFace
  /\ nticks = 0
  /\ amb_nticks = 0
  /\ presence_log = << >>
  /\ running = FALSE
  /\ vpc = "started"
  /\ stop_pc = "idle"
  /\ connected = FALSE
  /\ arg_points = << >>
  /\ arg_color = << 10, 10, 15 >>
  /\ variations = NoVariations

\* app.py:211-214: setup_vision_connections(), then ambient_window.show()
FinishInit ==
  /\ ~connected
  /\ connected' = TRUE
  /\ ambient_shown' = TRUE
  /\ painted' = NoFrame
  /\ UNCHANGED << activeAnim, activeTimes, face_pos, amb_state, ambTimes,
                  amb_face_pos, active_shown, history, vision, presence_log,
                  running, vpc, stop_pc, direct >>

\* app.exec() is running: __init__ has returned, cleanup() has not begun
GuiRunning == connected /\ stop_pc = "idle"

\* vision.py:51  self.running = True
RunEntry ==
  /\ vpc = "started"
  /\ running' = TRUE
  /\ vpc' = "opening"
  /\ painted' = NoFrame
  /\ UNCHANGED << program, history, vision, presence_log, stop_pc, connected,
                  direct >>

\* vision.py:64-68: the camera opens
CameraOpens ==
  /\ vpc = "opening"
  /\ vpc' = "check"
  /\ painted' = NoFrame
  /\ UNCHANGED << program, history, vision, presence_log, running, stop_pc,
                  connected, direct >>

\* vision.py:69-72: it does not; error_occurred, running = False, return
CameraFails ==
  /\ vpc = "opening"
  /\ sigq' = IF connected THEN Append(sigq, Signal("error_occurred", 0, 0))
             ELSE sigq
  /\ running' = FALSE
  /\ vpc' = "failed"
  /\ painted' = NoFrame
  /\ UNCHANGED << program, history, user_was_present, frames, presence_log,
                  stop_pc, connected, direct >>

\* vision.py:75  while self.running
LoopCheck ==
  /\ vpc = "check"
  /\ vpc' = IF running THEN "read" ELSE "release"
  /\ painted' = NoFrame
  /\ UNCHANGED << program, history, vision, presence_log, running, stop_pc,
                  connected, direct >>

\* vision.py:76-80: no frame could be read; sleep and continue
ReadFail ==
  /\ vpc = "read"
  /\ vpc' = "check"
  /\ painted' = NoFrame
  /\ UNCHANGED << program, history, vision, presence_log, running, stop_pc,
                  connected, direct >>

\* vision.py:76-132: a frame is read and processed
LoopPass(detected, x, y) ==
  /\ vpc = "read"
  /\ frames < MaxFrames
  /\ vision_frame(detected, x, y)
  /\ vpc' = "check"
  /\ painted' = NoFrame
  /\ UNCHANGED << running, stop_pc, connected, direct >>

\* vision.py:135  cap.release(), and run() returns
Release ==
  /\ vpc = "release"
  /\ vpc' = "finished"
  /\ painted' = NoFrame
  /\ UNCHANGED << program, history, vision, presence_log, running, stop_pc,
                  connected, direct >>

\* the steps of the vision thread
ThreadStep ==
  \/ RunEntry
  \/ CameraOpens
  \/ CameraFails
  \/ LoopCheck
  \/ ReadFail
  \/ \E x \in FaceCoords, y \in FaceCoords : LoopPass(TRUE, x, y)
  \/ LoopPass(FALSE, 0, 0)
  \/ Release

\* VisionThread.stop, called by stop_vision() from cleanup():
\* self.running = False, then self.wait() begins
StopCall ==
  /\ connected
  /\ stop_pc = "idle"
  /\ running' = FALSE
  /\ stop_pc' = "waiting"
  /\ painted' = NoFrame
  /\ UNCHANGED << program, history, vision, presence_log, vpc, connected,
                  direct >>

\* self.wait() returns once run() has returned
StopReturn ==
  /\ stop_pc = "waiting"
  /\ vpc \in {"finished", "failed"}
  /\ stop_pc' = "returned"
  /\ painted' = NoFrame
  /\ UNCHANGED << program, history, vision, presence_log, running, vpc,
                  connected, direct >>

ThreadNext ==
  \/ FinishInit
  \/ ThreadStep
  \/ StopCall
  \/ StopReturn
  \/ GuiRunning /\ Deliver
  \/ GuiRunning /\ EarlyTimerTimeout
  \/ GuiRunning /\ MousePress
  \/ GuiRunning /\ CloseActive

\* A started thread keeps being scheduled, and a wait() whose thread has
\* finished returns.
ThreadSpec ==
  ThreadInit /\ [][ThreadNext]_vars /\ WF_vars(ThreadStep) /\ WF_vars(StopReturn)

\* -------------------------------------------- the renderer called directly
\* The renderer's functions applied to arguments of their whole domain, not
\* only to what the two windows hand them.

\* the values of a QColor channel
Channel == 0 .. 255

\* base colours: every grey and the colours of the five states
Colours ==
  { << c, c, c >> : c \in Channel } \cup { get_state_color(st) : st \in States }

\* where the points of a small contour lie, 1/100 pixel
Places == { << 1000, 1000 >>, << 3000, 2000 >> }

\* contours of three points; the points of two of them all coincide
Contours == [ 1 .. 3 -> Places ]

\* all points of the contour are the same point
Coincident(points) == \A i \in 1 .. Len(points) : points[i] = points[1]

\* a window in any state value, a contour and a base colour to call with
CallInit ==
  /\ state \in AnyState
  /\ arg_points \in Contours
  /\ arg_color \in Colours
  /\ state_timer = 0
  /\ jump_height = 0
  /\ wobble_offset = 0
  /\ time = 0 /\ time2 = 0 /\ time3 = 0
  /\ face_pos = DefaultFace
  /\ amb_state = "idle"
  /\ amb_time = 0 /\ amb_time2 = 0 /\ amb_time3 = 0
  /\ amb_face_pos = DefaultFace
  /\ active_shown = FALSE
  /\ ambient_shown = TRUE
  /\ painted = NoFrame
  /\ nreq = 0
  /\ lastReq = "none"
  /\ ticksSince = 0
  /\ amb_lastReq = "none"
  /\ user_was_present = FALSE
  /\ sigq = << >>
  /\ frames = 0
  /\ lastFace = DefaultFace
  /\ nticks = 0
  /\ amb_nticks = 0
  /\ presence_log = << >>
  /\ running = TRUE
  /\ vpc = "check"
  /\ stop_pc = "idle"
  /\ connected = TRUE
  /\ variations = NoVariations

\* render_blob(painter, arg_points, state, face_pos)
CallRenderBlob ==
  /\ painted = NoFrame
  /\ painted' = Frame("direct", << 0, 0 >>,
                      render_blob(arg_points, state, face_pos))
  /\ UNCHANGED << program, history, vision, presence_log, thread, direct >>

\* base_color = self.get_state_color(state)
CallGetStateColor ==
  /\ arg_color' = get_state_color(state)
  /\ painted' = NoFrame
  /\ UNCHANGED << program, history, vision, presence_log, thread,
                  arg_points, variations >>

\* self.create_color_variations(base_color)
CallCreateColorVariations ==
  /\ variations' = create_color_variations(arg_color)
  /\ painted' = NoFrame
  /\ UNCHANGED << program, history, vision, presence_log, thread,
                  arg_points, arg_color >>

CallNext ==
  \/ CallRenderBlob
  \/ CallGetStateColor
  \/ CallCreateColorVariations
  \/ EarlyTimerTimeout

CallSpec == CallInit /\ [][CallNext]_vars

\* ================================================================ claims
\* the state a request asks for
ReqState(r) ==
  CASE r = "present" -> "listening"
    [] r = "absent" -> "idle"
    [] OTHER -> r

CenterRest == << 20000, 15000 >>

\* C1 as stated: with Success requested and no further request, the state
\* is still Success after tick 49 and already Idle, timer 0, after tick 50.
C1_IdleAtTick50 ==
  lastReq = "success" =>
    /\ ticksSince = 49 => state = "success"
    /\ ticksSince = 50 => state = "idle" /\ state_timer = 0

\* C1 amended: with Success requested and no further request, the state is
\* still Success (timer 50) after tick 50 and Idle with timer 0 after tick 51.
C1_IdleAtTick51 ==
  lastReq = "success" =>
    /\ ticksSince = 49 => state = "success" /\ state_timer = 49
    /\ ticksSince = 50 => state = "success" /\ state_timer = 50
    /\ ticksSince = 51 => state = "idle" /\ state_timer = 0

C1_Witness == lastReq = "success" /\ ticksSince = 51 /\ state = "idle"

\* C2: Success requested and exactly 51 ticks processed with no further
\* request: the state is Idle, the timer 0, and a frame painted then has its
\* centre at rest, without the jump offset.
C2_After51Ticks ==
  (lastReq = "success" /\ ticksSince = 51) =>
    /\ state = "idle"
    /\ state_timer = 0
    /\ painted.window = "active" => painted.center = CenterRest

C2_Witness ==
  /\ lastReq = "success" /\ ticksSince = 51
  /\ painted.window = "active"
  /\ jump_height # 0

\* C3: with Error requested and no further request, each of the first 40
\* ticks adds one to the state timer and leaves the state Error; the 41st
\* tick, the first at which the incremented timer exceeds 40, sets the state
\* to Idle and the timer to 0.
C3_ErrorRunsOut ==
  lastReq = "error" =>
    /\ ticksSince <= ErrorTicks => state = "error" /\ state_timer = ticksSince
    /\ ticksSince = ErrorTicks + 1 => state = "idle" /\ state_timer = 0

C3_Witness == lastReq = "error" /\ ticksSince = ErrorTicks + 1 /\ state = "idle"

\* C4: every externally requested state change of the active window (a key
\* request, a presenceGained or presenceLost event) leaves the state timer
\* at 0 right after the request.
C4_RequestZeroesTimer ==
  (lastReq # "none" /\ ticksSince = 0) => state_timer = 0

\* C5: once the active window is in Success or Error, with the timer firing
\* and no further state request, the state becomes Idle, whatever face
\* position updates are interleaved.
C5_TransientExpires ==
  \A n \in 0 .. MaxReq :
    (state \in Transient /\ nreq = n) ~> (state = "idle" \/ nreq > n)

C5_Witness ==
  /\ lastReq \in Transient /\ state = "idle" /\ ticksSince > 0
  /\ face_pos # DefaultFace

\* C6: of several state requests arriving between two ticks, the latest one
\* decides the state the next tick and the next paint see; none is queued to
\* take effect later.
C6_LastRequestWins ==
  /\ (lastReq # "none" /\ ticksSince <= 1) => state = ReqState(lastReq)
  /\ amb_lastReq # "none" => amb_state = ReqState(amb_lastReq)
  /\ painted.window = "active" => painted.state = state
  /\ painted.window = "ambient" => painted.state = amb_state

C6_Witness ==
  /\ nreq = 2 /\ nticks = 0
  /\ lastReq = "thinking"
  /\ painted.window = "active"

\* C7: the face position a frame is rendered with is the default (0.5, 0.5)
\* or the (x, y) pair of the latest face_position_signal delivered before
\* the frame, never x of one update with y of another.
C7_FacePairWhole ==
  /\ face_pos = lastFace
  /\ amb_face_pos = lastFace
  /\ painted.window # "none" => painted.face_pos = lastFace

C7_Witness ==
  /\ painted.window = "active"
  /\ painted.face_pos = << 10, 10 >>
  /\ sigq # << >>
  /\ Head(sigq).sig = "face_position_signal"
  /\ Head(sigq).x = 0 /\ Head(sigq).y = 0

C9_PointCount ==
  /\ painted.window = "active" =>
       /\ painted.npoints = active_num_points
       /\ painted.npath = active_num_points
       /\ painted.nshadow = active_num_points
       /\ painted.closed
  /\ painted.window = "ambient" =>
       /\ painted.npoints = ambient_num_points
       /\ painted.npath = ambient_num_points
       /\ painted.nshadow = ambient_num_points
       /\ painted.closed

C9_Witness ==
  /\ painted.window = "active"
  /\ painted.state = "error" /\ state_timer > 0
  /\ painted.face_pos = << 0, 10 >>

\* C10: a frame painted in Idle, Listening or Thinking has its centre at
\* rest whatever jump_height and wobble_offset hold; the vertical offset is
\* applied in Success only and the horizontal one in Error only.
C10_OffsetsOnlyInTransient ==
  painted.window = "active" =>
    /\ painted.state \notin Transient => painted.center = CenterRest
    /\ painted.state = "success" =>
         painted.center = << 20000, 15000 + jump_height >>
    /\ painted.state = "error" =>
         painted.center = << 20000 + wobble_offset, 15000 >>

C10_Witness ==
  /\ painted.window = "active"
  /\ painted.state = "listening"
  /\ jump_height # 0

\* the offset an animation run has computed when its state timer is timer:
\* nothing before its first tick, then the sine of the timer value that the
\* latest tick started from
RunJump(timer) == IF timer = 0 THEN 0 ELSE JumpOf(timer - 1)

RunWobble(timer) == IF timer = 0 THEN 0 ELSE WobbleOf(timer - 1)

\* C11: in every frame painted while the state is Success (resp. Error) the
\* jump (resp. wobble) offset applied to the centre is the one computed from
\* the state timer of the current animation run, so that frames painted
\* with the same state timer carry the same offset, a frame painted right
\* after Success or Error is requested again included.
C11_OffsetFollowsTimer ==
  painted.window = "active" =>
    /\ painted.state = "success" =>
         painted.center = << 20000, 15000 + RunJump(state_timer) >>
    /\ painted.state = "error" =>
         painted.center = << 20000 + RunWobble(state_timer), 15000 >>

\* the draw calls the renderer is to make, in order: gradient and contour
LayerOrder ==
  << << "ao_gradient", "path" >>,
     << "shadow_gradient", "shadow_path" >>,
     << "main_gradient", "path" >>,
     << "rim_gradient", "path" >>,
     << "specular_gradient", "path" >>,
     << "secondary_gradient", "path" >>,
     << "white", "left_eye" >>,
     << "white", "right_eye" >> >>

\* C12: in every render_blob call the layers are painted in this order:
\* ambient occlusion over the main contour, contact shadow over the shadow
\* contour, main lighting, rim light, specular and secondary highlight over
\* the main contour, and the eye pair after all six; none is skipped or
\* repeated.
C12_LayerOrder ==
  painted.window # "none" => painted.layers = LayerOrder

C12_Witness ==
  /\ painted.window = "ambient"
  /\ painted.state = "thinking"
  /\ painted.face_pos # DefaultFace
  /\ Len(painted.layers) = 8

\* C14: for every face position, the shadow contour painted in a frame is
\* the main contour painted in that frame (the leaned contour that receives
\* the main-lighting layer) with every point moved by exactly (+4, +4)
\* pixels.
C14_ShadowFollowsMain ==
  painted.window # "none" =>
    painted.shadow_delta = { << shadow_offset * 100, shadow_offset * 100 >> }

\* C13: given a contour whose points all coincide (max_distance = 0),
\* render_blob does not divide by zero: the frame is completed, with all its
\* layers, instead of being aborted by an error.
C13_CoincidentCompletes ==
  (painted.window = "direct" /\ Coincident(arg_points)) =>
    /\ ~painted.aborted
    /\ Len(painted.layers) = Len(LayerOrder)

\* C15: for every base colour with channels in 0..255, the variations are,
\* per channel, highlight = min(255, base + 80), mid-light = min(255,
\* base + 40), mid-dark = max(0, base - 40) and shadow = max(0, base - 60),
\* so every channel of every variant stays in 0..255; for Listening the base
\* is (0, 200, 255) and the highlight (80, 255, 255).
C15_VariationsClamped ==
  /\ get_state_color("listening") = << 0, 200, 255 >>
  /\ variations.made =>
       /\ \A i \in 1 .. 3 :
            LET b == variations.base[i] IN
            /\ variations.highlight[i] = IF b + 80 > 255 THEN 255 ELSE b + 80
            /\ variations.mid_light[i] = IF b + 40 > 255 THEN 255 ELSE b + 40
            /\ variations.mid_dark[i] = IF b - 40 < 0 THEN 0 ELSE b - 40
            /\ variations.shadow[i] = IF b - 60 < 0 THEN 0 ELSE b - 60
            /\ { variations.highlight[i], variations.mid_light[i],
                 variations.mid_dark[i], variations.shadow[i] } \subseteq Channel
       /\ variations.base = << 0, 200, 255 >> =>
            variations.highlight = << 80, 255, 255 >>

C15_Witness ==
  /\ state = "listening"
  /\ variations.made
  /\ variations.base = << 0, 200, 255 >>
  /\ variations.highlight = << 80, 255, 255 >>
  /\ variations.shadow = << 0, 140, 195 >>

\* C16: get_state_color never fails: for a state value outside the five
\* states it returns Idle's colour (10, 10, 15), and a tick processed with
\* such a state changes neither the state nor the state timer.
C16_UnknownStateFallsBack ==
  /\ [](state \notin States => get_state_color(state) = << 10, 10, 15 >>)
  /\ []((painted.window = "direct" /\ painted.state \notin States
           /\ ~Coincident(arg_points)) =>
          (~painted.aborted /\ painted.base_color = << 10, 10, 15 >>))
  /\ [][(state \notin States /\ nticks' = nticks + 1) =>
          (state' = state /\ state_timer' = state_timer)]_vars

C16_Witness ==
  /\ state \notin States
  /\ nticks > 0
  /\ painted.window = "direct"
  /\ painted.state = state
  /\ painted.base_color = << 10, 10, 15 >>

\* user_present and user_absent taking turns, user_present first
Alternates(log) ==
  \A i \in 1 .. Len(log) :
    log[i] = IF i % 2 = 1 THEN "user_present" ELSE "user_absent"

\* C17: the vision thread emits presence signals only on a change of
\* detection: over the camera frames processed, user_present and
\* user_absent strictly alternate, the first one emitted is user_present,
\* and a frame whose detection result equals the previous frame's emits
\* neither.
C17_PresenceAlternates ==
  /\ [](Alternates(presence_log))
  /\ [][(frames' = frames + 1 /\ user_was_present' = user_was_present) =>
          presence_log' = presence_log]_vars
  /\ [][(frames' = frames + 1 /\ user_was_present' # user_was_present) =>
          Len(presence_log') = Len(presence_log) + 1]_vars

C17_Witness ==
  /\ frames = 3
  /\ presence_log = << "user_present", "user_absent" >>
  /\ ~user_was_present

\* C18: VisionThread.stop() stops the thread safely: in every interleaving
\* of stop() with the started thread's run(), stop() called before run() has
\* executed its first statement included, the processing loop exits, the
\* camera is released (if it was opened) and stop()'s wait returns.
C18_StopReturns ==
  (stop_pc = "waiting") ~>
    (stop_pc = "returned" /\ vpc \in {"finished", "failed"})

\* a slot event of a presence signal is still queued
PendingPresence ==
  \E i \in 1 .. Len(sigq) :
    sigq[i].sig \in {"user_present", "user_present_ambient",
                     "user_absent", "user_absent_ambient"}

\* the state a presence signal asks both windows to take
PresenceState(sig) == IF sig = "user_present" THEN "listening" ELSE "idle"

\* C19: every user_present the vision thread emits, the first one after
\* start-up included, has both windows in state listening once it is
\* handled, and every user_absent has both idle, whatever state they were in.
C19_PresenceReachesWindows ==
  (presence_log # << >> /\ ~PendingPresence) =>
    /\ state = PresenceState(presence_log[Len(presence_log)])
    /\ amb_state = PresenceState(presence_log[Len(presence_log)])

\* C20: after start-up, under any sequence of clicks on the orb
\* (show_active_window) and closes of the active window (closeEvent ->
\* close_active_window -> show_ambient_window), exactly one of the two
\* windows is shown: the orb at first, the active window after a click, the
\* orb again after the active window is closed.
C20_OneWindowShown ==
  /\ active_shown # ambient_shown
  /\ painted.window = "active" => active_shown
  /\ painted.window = "ambient" => ambient_shown

C20_Witness ==
  /\ ambient_shown /\ ~active_shown
  /\ nreq > 0
  /\ painted.window = "ambient"

\* C21: in every reachable state of the active window, under any
\* interleaving of ticks, key requests and presence events, the state timer
\* is an integer in 0..50, and it is at most 40 whenever the state is Error.
C21_TimerInRange ==
  /\ state_timer \in 0 .. SuccessTicks
  /\ state = "error" => state_timer <= ErrorTicks

C21_Witness ==
  /\ state = "error" /\ state_timer = ErrorTicks
  /\ jump_height # 0
  /\ nreq = 2
====
